---- MODULE Spec2Model ----
(***************************************************************************)
(* Multi-Level Feedback Queue simulator (src/MLFQ.ts, runMLFQ and the      *)
(* quantumTests driver).  One run of runMLFQ is modelled step by step:     *)
(* the locals of the function are the variables, pc is the position in     *)
(* its body.  Levels are 0-based as in the source; queues[l + 1] is the    *)
(* source's queues[l], timeQuantums[l + 1] the source's timeQuantums[l].   *)
(* Tracked jobs are referred to by their index in jobs (the source holds   *)
(* references to the same objects in jobs and in the queues).              *)
(***************************************************************************)
EXTENDS Integers, Sequences, FiniteSets, TLC

VARIABLES
    inputJobs,          \* the Job Registry (module-level const inputJobs)
    idx,                \* number of runMLFQ calls made so far by the driver
    timeQuantums,       \* parameter of runMLFQ
    maxLevel,           \* local maxLevel
    jobs,               \* local jobs: TrackedJob[]
    currentTime,        \* local currentTime
    jobsFinished,       \* local jobsFinished
    queues,             \* local queues: one sequence of job indices per level
    executionTimeline,  \* local executionTimeline (the values each line is built from)
    jobToRun,           \* local jobToRun: a job index, 0 for undefined
    queueLevel,         \* local queueLevel
    jobStats,           \* the value runMLFQ returns
    stderr,             \* ids reported through console.error
    pc,                 \* position in the program
    pushLog,            \* history: every push onto a queue, in order
    alt                 \* the locals of runMLFQ of src/unnamed/part_000, run beside

vars == <<inputJobs, idx, timeQuantums, maxLevel, jobs, currentTime, jobsFinished,
          queues, executionTimeline, jobToRun, queueLevel, jobStats, stderr, pc,
          pushLog, alt>>

locals == <<timeQuantums, maxLevel, jobs, currentTime, jobsFinished,
            queues, executionTimeline, jobToRun, queueLevel>>

----------------------------------------------------------------------------
(* Bounds of the model *)

MaxArrival == 3       \* generated arrival times are 0..MaxArrival
MaxBurst == 3         \* generated burst times are 1..MaxBurst
MaxQuantum == 2       \* generated positive quanta are 1..MaxQuantum
MaxRuns == 2          \* calls of runMLFQ made by the driver
MaxTimeline == 24     \* cap on the timeline length, reached only by runs that never end

----------------------------------------------------------------------------
(* Values *)

Null == <<>>                      \* completionTime: null
Some(t) == <<t>>                  \* completionTime: a number
Undefined == 0                    \* jobToRun: undefined

\* Generated registries hold zero, one or two jobs, with these ids.
GenIds == <<"A", "B">>

\* Generated quantum lists hold one or two levels.
LevelCounts == {1, 2}

Job(id, arrivalTime, burstTime) ==
    [id |-> id, arrivalTime |-> arrivalTime, burstTime |-> burstTime]

\* The registry of the source.
Registry == << Job("A", 0, 10), Job("B", 1, 5), Job("C", 2, 8) >>

\* The configurations the source runs.
quantumTests == << <<5, 10, 20>>, <<2, 4, 8>>, <<8, 16, 32>>, <<3, 6, 12>>, <<10, 20, 40>> >>

Range(s) == {s[i] : i \in DOMAIN s}

\* Registries of n jobs with distinct ids, arrival >= 0 and burst > 0.
GenRegistries(n) ==
    { [i \in 1..n |-> Job(GenIds[i], f[i][1], f[i][2])] :
        f \in [1..n -> (0..MaxArrival) \X (1..MaxBurst)] }

JobSets == UNION {GenRegistries(n) : n \in 0..Len(GenIds)} \cup {Registry}

\* Lists of positive quanta.
PositiveLists == UNION {[1..n -> 1..MaxQuantum] : n \in LevelCounts}

\* Lists runMLFQ accepts as well: empty, or with a zero or negative quantum.
UncheckedLists ==
    { <<>>, <<0>>, <<-1>>, <<0, 1>>, <<1, 0>>, <<-1, 1>>, <<1, -1>> }

QuantumLists == PositiveLists \cup UncheckedLists \cup Range(quantumTests)

\* A configuration as the specification defines it: non-empty, all values positive.
ValidConfig(q) == Len(q) > 0 /\ \A l \in 1..Len(q) : q[l] > 0

Min(a, b) == IF a <= b THEN a ELSE b

----------------------------------------------------------------------------
(* Helpers of runMLFQ *)

\* inputJobs.map(job => ({...job, remainingTime: ..., ...}))
TrackJobs(reg) ==
    [i \in 1..Len(reg) |->
        [id |-> reg[i].id, arrivalTime |-> reg[i].arrivalTime,
         burstTime |-> reg[i].burstTime,
         remainingTime |-> reg[i].burstTime, currentLevel |-> 0,
         completionTime |-> Null, enqueued |-> FALSE]]

\* timeQuantums.map(() => [])
NewQueues(q) == [l \in 1..Len(q) |-> <<>>]

\* (mutant) a job is admitted only once the clock has passed its arrival
EligibleStrict(job, now) == ~job.enqueued /\ job.arrivalTime < now

\* !job.enqueued && job.arrivalTime <= currentTime
Eligible(job, now) == ~job.enqueued /\ job.arrivalTime <= now

\* (mutant) the eligible jobs taken last to first
ArrivalsReversed(js, now) ==
    LET RECURSIVE Walk(_)
        Walk(i) == IF i < 1 THEN <<>>
                   ELSE (IF Eligible(js[i], now) THEN <<i>> ELSE <<>>) \o Walk(i - 1)
    IN  Walk(Len(js))

\* The jobs the forEach of the admission step pushes, in jobs order.
Arrivals(js, now) ==
    SelectSeq([i \in 1..Len(js) |-> i], LAMBDA i : Eligible(js[i], now))

\* (mutant) the admission step without job.enqueued = true
MarkEnqueuedNever(js, now) == js

\* job.enqueued = true for each of them.
MarkEnqueued(js, now) ==
    [i \in 1..Len(js) |->
        IF Eligible(js[i], now) THEN [js[i] EXCEPT !.enqueued = TRUE] ELSE js[i]]

\* (mutant) the scan started from the lowest-priority level: the last non-empty level
ScanDown(qs, ml, l) ==
    IF \E k \in l..ml : Len(qs[k + 1]) > 0
    THEN CHOOSE k \in l..ml :
            Len(qs[k + 1]) > 0 /\ \A m \in (k + 1)..ml : Len(qs[m + 1]) = 0
    ELSE IF l <= ml THEN ml + 1 ELSE l

\* for (; queueLevel <= maxLevel; queueLevel++) if (queues[queueLevel].length > 0) break;
\* the value of queueLevel when the loop is left, started at l.
RECURSIVE Scan(_, _, _)
Scan(qs, ml, l) ==
    IF l <= ml
    THEN IF Len(qs[l + 1]) > 0 THEN l ELSE Scan(qs, ml, l + 1)
    ELSE l

\* (mutant) the quantum, whatever remains of the job
RunTimeNoMin(quantum, remainingTime) == quantum

\* Math.min(quantum, jobToRun.remainingTime)
RunTime(quantum, remainingTime) == Min(quantum, remainingTime)

\* `${currentTime}-${currentTime + 1}: IDLE`
IdleInterval(now) ==
    [start |-> now, end |-> now + 1, id |-> "IDLE", level |-> -1]

\* (mutant) the end of the interval printed as the run time alone
RunIntervalRelativeEnd(now, runTime, id, level) ==
    [start |-> now, end |-> runTime, id |-> id, level |-> level]

\* `${currentTime}-${currentTime + runTime}: ${jobToRun.id} (Level ${queueLevel})`
RunInterval(now, runTime, id, level) ==
    [start |-> now, end |-> now + runTime, id |-> id, level |-> level]

\* The line of the timeline an interval is printed as.
Render(iv) ==
    IF iv.id = "IDLE"
    THEN ToString(iv.start) \o "-" \o ToString(iv.end) \o ": IDLE"
    ELSE ToString(iv.start) \o "-" \o ToString(iv.end) \o ": " \o iv.id
         \o " (Level " \o ToString(iv.level) \o ")"

\* (mutant) no demotion: the job stays at its level
DemotedLevelStay(currentLevel, ml) == currentLevel

\* (mutant) demotion straight to the lowest level
DemotedLevelToBottom(currentLevel, ml) == ml

\* Math.min(jobToRun.currentLevel + 1, maxLevel)
DemotedLevel(currentLevel, ml) == Min(currentLevel + 1, ml)

\* jobs.find(j => j.id === id): the first index with that id, 0 when there is none.
Find(js, id) ==
    IF \E i \in 1..Len(js) : js[i].id = id
    THEN CHOOSE i \in 1..Len(js) :
            js[i].id = id /\ \A k \in 1..(i - 1) : js[k].id # id
    ELSE 0

\* Whether the statistics stage takes its error branch for originalJob.
StatFails(js, originalJob) ==
    LET k == Find(js, originalJob.id)
    IN  k = 0 \/ js[k].completionTime = Null

\* (mutant) turnaround measured from time 0 instead of from the arrival
JobStatFromZero(js, originalJob) ==
    LET k == Find(js, originalJob.id)
    IN  IF k = 0 \/ js[k].completionTime = Null
        THEN [id |-> originalJob.id, turnaroundTime |-> -1, waitingTime |-> -1]
        ELSE LET turnaroundTime == js[k].completionTime[1]
                 waitingTime == turnaroundTime - js[k].burstTime
             IN  [id |-> js[k].id, turnaroundTime |-> turnaroundTime,
                  waitingTime |-> waitingTime]

\* (mutant) the waiting time taken against remainingTime instead of burstTime
JobStatLessRemaining(js, originalJob) ==
    LET k == Find(js, originalJob.id)
    IN  IF k = 0 \/ js[k].completionTime = Null
        THEN [id |-> originalJob.id, turnaroundTime |-> -1, waitingTime |-> -1]
        ELSE LET turnaroundTime == js[k].completionTime[1] - js[k].arrivalTime
                 waitingTime == turnaroundTime - js[k].remainingTime
             IN  [id |-> js[k].id, turnaroundTime |-> turnaroundTime,
                  waitingTime |-> waitingTime]

\* The entry of jobStats computed for originalJob.
JobStat(js, originalJob) ==
    LET k == Find(js, originalJob.id)
    IN  IF k = 0 \/ js[k].completionTime = Null
        THEN [id |-> originalJob.id, turnaroundTime |-> -1, waitingTime |-> -1]
        ELSE LET turnaroundTime == js[k].completionTime[1] - js[k].arrivalTime
                 waitingTime == turnaroundTime - js[k].burstTime
             IN  [id |-> js[k].id, turnaroundTime |-> turnaroundTime,
                  waitingTime |-> waitingTime]

\* One iteration of the while loop of runMLFQ as a function of its locals s
\* (thrown is set when the admission push throws).
Iterate(q, s) ==
    LET arrived == Arrivals(s.jobs, s.currentTime)
    IN  IF arrived # <<>> /\ Len(s.queues) = 0 THEN [s EXCEPT !.thrown = TRUE]
        ELSE
        LET js1 == <<>> \o MarkEnqueued(s.jobs, s.currentTime)   \* as a sequence value
            qs1 == IF arrived = <<>> THEN s.queues
                   ELSE [s.queues EXCEPT ![1] = @ \o arrived]
            l == Scan(qs1, Len(q) - 1, 0)
        IN  IF ~(l <= Len(q) - 1)
            THEN [s EXCEPT !.jobs = js1, !.queues = qs1,
                           !.timeline = Append(@, IdleInterval(s.currentTime)),
                           !.currentTime = @ + 1]
            ELSE
            LET j == Head(qs1[l + 1])
                qs2 == [qs1 EXCEPT ![l + 1] = Tail(@)]
                runTime == RunTime(q[l + 1], js1[j].remainingTime)
                now == s.currentTime + runTime
                js2 == [js1 EXCEPT ![j].remainingTime = @ - runTime]
                tl == Append(s.timeline,
                             RunInterval(s.currentTime, runTime, js1[j].id, l))
            IN  IF js2[j].remainingTime = 0
                THEN [s EXCEPT !.jobs = [js2 EXCEPT ![j].completionTime = Some(now)],
                               !.queues = qs2, !.timeline = tl, !.currentTime = now,
                               !.jobsFinished = @ + 1]
                ELSE LET newLevel == DemotedLevel(js2[j].currentLevel, Len(q) - 1)
                     IN  [s EXCEPT !.jobs = [js2 EXCEPT ![j].currentLevel = newLevel],
                                   !.queues = [qs2 EXCEPT ![newLevel + 1] = Append(@, j)],
                                   !.timeline = tl, !.currentTime = now]

\* The while loop: the locals it is left with, after at most fuel iterations
\* (ended is set when the loop test has failed).
RECURSIVE Loop(_, _, _)
Loop(q, s, fuel) ==
    IF ~(s.jobsFinished < Len(s.jobs)) THEN [s EXCEPT !.ended = TRUE]
    ELSE IF fuel = 0 \/ s.thrown THEN s
    ELSE CHOOSE r \in {Loop(q, t, fuel - 1) : t \in {Iterate(q, s)}} : TRUE

\* What one call prints and returns: the lines of the timeline and jobStats.
Output(tl, stats) ==
    [timeline |-> [k \in 1..Len(tl) |-> Render(tl[k])], stats |-> stats]

\* One call of runMLFQ made on its own, from its first line to its return.
runMLFQ(reg, q) ==
    LET s == Loop(q, [jobs |-> TrackJobs(reg), currentTime |-> 0, jobsFinished |-> 0,
                      queues |-> NewQueues(q), timeline |-> <<>>,
                      thrown |-> FALSE, ended |-> FALSE],
                  MaxTimeline + 1)
    IN  IF s.ended
        THEN Output(s.timeline, [i \in 1..Len(reg) |-> JobStat(s.jobs, reg[i])])
        ELSE [timeline |-> <<>>, stats |-> <<"no return">>]

----------------------------------------------------------------------------
(* runMLFQ of src/unnamed/part_000, one loop iteration at a time *)

\* (mutant) the last non-empty queue instead of the first
FindLastIndex(qs) ==
    IF \E k \in 1..Len(qs) : Len(qs[k]) > 0
    THEN (CHOOSE k \in 1..Len(qs) :
            Len(qs[k]) > 0 /\ \A m \in (k + 1)..Len(qs) : Len(qs[m]) = 0) - 1
    ELSE -1

\* queues.findIndex(queue => queue.length > 0): 0-based, -1 when all are empty.
FindIndex(qs) ==
    IF \E k \in 1..Len(qs) : Len(qs[k]) > 0
    THEN (CHOOSE k \in 1..Len(qs) :
            Len(qs[k]) > 0 /\ \A m \in 1..(k - 1) : Len(qs[m]) = 0) - 1
    ELSE -1

\* The entry the statistics stage of part_000 returns: completionTime! is not
\* checked, and null counts as 0 in the subtraction.
AltJobStat(js, originalJob) ==
    LET k == Find(js, originalJob.id)
        completionTime == IF js[k].completionTime = Null THEN 0
                          ELSE js[k].completionTime[1]
        turnaroundTime == completionTime - js[k].arrivalTime
        waitingTime == turnaroundTime - js[k].burstTime
    IN  [id |-> js[k].id, turnaroundTime |-> turnaroundTime,
         waitingTime |-> waitingTime]

\* The locals of part_000's runMLFQ when the loop is first tested.
AltStart(reg, q) ==
    [jobs |-> TrackJobs(reg), currentTime |-> 0, jobsFinished |-> 0,
     queues |-> NewQueues(q), executionTimeline |-> <<>>, jobStats |-> <<>>,
     pc |-> "while"]

\* One iteration of part_000's while loop.
AltIterate(q, a) ==
    LET arrived == Arrivals(a.jobs, a.currentTime)
    IN  IF arrived # <<>> /\ Len(a.queues) = 0 THEN [a EXCEPT !.pc = "TypeError"]
        ELSE
        LET js1 == MarkEnqueued(a.jobs, a.currentTime)
            qs1 == IF arrived = <<>> THEN a.queues
                   ELSE [a.queues EXCEPT ![1] = @ \o arrived]
            queueIndex == FindIndex(qs1)
        IN  IF queueIndex = -1
            THEN [a EXCEPT !.jobs = js1, !.queues = qs1,
                           !.executionTimeline = Append(@, IdleInterval(a.currentTime)),
                           !.currentTime = @ + 1]
            ELSE
            LET j == Head(qs1[queueIndex + 1])
                qs2 == [qs1 EXCEPT ![queueIndex + 1] = Tail(@)]
                runTime == RunTime(q[queueIndex + 1], js1[j].remainingTime)
                now == a.currentTime + runTime
                js2 == [js1 EXCEPT ![j].remainingTime = @ - runTime]
                tl == Append(a.executionTimeline,
                             RunInterval(a.currentTime, runTime, js1[j].id, queueIndex))
            IN  IF js2[j].remainingTime = 0
                THEN [a EXCEPT !.jobs = [js2 EXCEPT ![j].completionTime = Some(now)],
                               !.queues = qs2, !.executionTimeline = tl,
                               !.currentTime = now, !.jobsFinished = @ + 1]
                ELSE LET newLevel == DemotedLevel(js2[j].currentLevel, Len(q) - 1)
                     IN  [a EXCEPT !.jobs = [js2 EXCEPT ![j].currentLevel = newLevel],
                                   !.queues = [qs2 EXCEPT ![newLevel + 1] = Append(@, j)],
                                   !.executionTimeline = tl, !.currentTime = now]

\* part_000 advanced to its next loop test: one iteration, or the
\* statistics stage and the return when the loop test fails.
AltStep(reg, q, a) ==
    IF a.pc # "while" THEN a
    ELSE IF a.jobsFinished < Len(a.jobs) THEN AltIterate(q, a)
    ELSE [a EXCEPT !.jobStats = [i \in 1..Len(reg) |-> AltJobStat(a.jobs, reg[i])],
                   !.pc = "returned"]

\* An entry of pushLog: queues[level].push(job) at the given clock, by the
\* admission step ("admit") or by the demotion branch ("requeue").
Push(job, level, kind, clock) ==
    [job |-> job, level |-> level, kind |-> kind, clock |-> clock]

----------------------------------------------------------------------------
(* The program *)

Init ==
    /\ inputJobs \in JobSets
    /\ idx = 0
    /\ timeQuantums = <<>>
    /\ maxLevel = -1
    /\ jobs = <<>>
    /\ currentTime = 0
    /\ jobsFinished = 0
    /\ queues = <<>>
    /\ executionTimeline = <<>>
    /\ jobToRun = Undefined
    /\ queueLevel = 0
    /\ jobStats = <<>>
    /\ stderr = <<>>
    /\ pc = "caller"
    /\ pushLog = <<>>
    /\ alt = AltStart(<<>>, <<>>)

\* (mutant) the clock kept across calls instead of starting at 0
StartRunKeepClock(q) ==
    /\ pc \in {"caller", "returned"}
    /\ idx < MaxRuns
    /\ idx' = idx + 1
    /\ timeQuantums' = q
    /\ maxLevel' = Len(q) - 1
    /\ jobs' = TrackJobs(inputJobs)
    /\ jobsFinished' = 0
    /\ queues' = NewQueues(q)
    /\ executionTimeline' = <<>>
    /\ jobToRun' = Undefined
    /\ queueLevel' = 0
    /\ jobStats' = <<>>
    /\ stderr' = <<>>
    /\ pc' = "while"
    /\ pushLog' = <<>>
    /\ alt' = AltStart(inputJobs, q)
    /\ UNCHANGED <<inputJobs, currentTime>>

\* The driver calls runMLFQ(q); the function creates its locals.
StartRun(q) ==
    /\ pc \in {"caller", "returned"}
    /\ idx < MaxRuns
    /\ idx' = idx + 1
    /\ timeQuantums' = q
    /\ maxLevel' = Len(q) - 1
    /\ jobs' = TrackJobs(inputJobs)
    /\ currentTime' = 0
    /\ jobsFinished' = 0
    /\ queues' = NewQueues(q)
    /\ executionTimeline' = <<>>
    /\ jobToRun' = Undefined
    /\ queueLevel' = 0
    /\ jobStats' = <<>>
    /\ stderr' = <<>>
    /\ pc' = "while"
    /\ pushLog' = <<>>
    /\ alt' = AltStart(inputJobs, q)
    /\ UNCHANGED inputJobs

\* Loop test true, then the admission forEach.  queues[0] is undefined for an
\* empty quantum list: the first push throws a TypeError.
Admit ==
    /\ pc = "while"
    /\ jobsFinished < Len(jobs)
    /\ LET arrived == Arrivals(jobs, currentTime)
       IN  IF arrived = <<>>
           THEN /\ pc' = "select"
                /\ UNCHANGED <<jobs, queues, pushLog, alt>>
           ELSE IF Len(queues) = 0
           THEN /\ pc' = "TypeError"
                /\ alt' = AltStep(inputJobs, timeQuantums, alt)
                /\ UNCHANGED <<jobs, queues, pushLog>>
           ELSE /\ queues' = [queues EXCEPT ![1] = @ \o arrived]
                /\ jobs' = MarkEnqueued(jobs, currentTime)
                /\ pushLog' = pushLog \o
                       [k \in 1..Len(arrived) |-> Push(arrived[k], 0, "admit", currentTime)]
                /\ pc' = "select"
                /\ UNCHANGED alt
    /\ UNCHANGED <<inputJobs, idx, timeQuantums, maxLevel, currentTime, jobsFinished,
                   executionTimeline, jobToRun, queueLevel, jobStats, stderr>>

\* (mutant) pop() in place of shift(): the newest entry of the queue is taken
SelectPop ==
    /\ pc = "select"
    /\ LET l == Scan(queues, maxLevel, 0)
       IN  /\ queueLevel' = l
           /\ IF l <= maxLevel
              THEN /\ jobToRun' = queues[l + 1][Len(queues[l + 1])]
                   /\ queues' = [queues EXCEPT ![l + 1] = SubSeq(@, 1, Len(@) - 1)]
              ELSE /\ jobToRun' = Undefined
                   /\ UNCHANGED queues
    /\ pc' = "branch"
    /\ UNCHANGED <<inputJobs, idx, timeQuantums, maxLevel, jobs, currentTime,
                   jobsFinished, executionTimeline, jobStats, stderr, pushLog, alt>>

\* The scan for the highest-priority non-empty queue and the shift of its head.
Select ==
    /\ pc = "select"
    /\ LET l == Scan(queues, maxLevel, 0)
       IN  /\ queueLevel' = l
           /\ IF l <= maxLevel
              THEN /\ jobToRun' = Head(queues[l + 1])
                   /\ queues' = [queues EXCEPT ![l + 1] = Tail(@)]
              ELSE /\ jobToRun' = Undefined
                   /\ UNCHANGED queues
    /\ pc' = "branch"
    /\ UNCHANGED <<inputJobs, idx, timeQuantums, maxLevel, jobs, currentTime,
                   jobsFinished, executionTimeline, jobStats, stderr, pushLog, alt>>

\* No job is ready: one IDLE interval of one unit, then continue.
Idle ==
    /\ pc = "branch"
    /\ jobToRun = Undefined
    /\ Len(executionTimeline) < MaxTimeline
    /\ executionTimeline' = Append(executionTimeline, IdleInterval(currentTime))
    /\ currentTime' = currentTime + 1
    /\ pc' = "while"
    /\ alt' = AltStep(inputJobs, timeQuantums, alt)
    /\ UNCHANGED <<inputJobs, idx, timeQuantums, maxLevel, jobs, jobsFinished,
                   queues, jobToRun, queueLevel, jobStats, stderr, pushLog>>

\* (mutant) the interval and the clock charged with the whole quantum
RunWholeQuantum ==
    /\ pc = "branch"
    /\ jobToRun # Undefined
    /\ Len(executionTimeline) < MaxTimeline
    /\ LET quantum == timeQuantums[queueLevel + 1]
           runTime == RunTime(quantum, jobs[jobToRun].remainingTime)
       IN  /\ executionTimeline' =
                Append(executionTimeline,
                       RunInterval(currentTime, quantum, jobs[jobToRun].id, queueLevel))
           /\ jobs' = [jobs EXCEPT ![jobToRun].remainingTime = @ - runTime]
           /\ currentTime' = currentTime + quantum
    /\ pc' = "settle"
    /\ UNCHANGED <<inputJobs, idx, timeQuantums, maxLevel, jobsFinished, queues,
                   jobToRun, queueLevel, jobStats, stderr, pushLog, alt>>

\* The selected job runs for min(quantum, remaining time).
Run ==
    /\ pc = "branch"
    /\ jobToRun # Undefined
    /\ Len(executionTimeline) < MaxTimeline
    /\ LET quantum == timeQuantums[queueLevel + 1]
           runTime == RunTime(quantum, jobs[jobToRun].remainingTime)
       IN  /\ executionTimeline' =
                Append(executionTimeline,
                       RunInterval(currentTime, runTime, jobs[jobToRun].id, queueLevel))
           /\ jobs' = [jobs EXCEPT ![jobToRun].remainingTime = @ - runTime]
           /\ currentTime' = currentTime + runTime
    /\ pc' = "settle"
    /\ UNCHANGED <<inputJobs, idx, timeQuantums, maxLevel, jobsFinished, queues,
                   jobToRun, queueLevel, jobStats, stderr, pushLog, alt>>

\* remainingTime === 0: the job is complete.
Complete ==
    /\ pc = "settle"
    /\ jobs[jobToRun].remainingTime = 0
    /\ jobs' = [jobs EXCEPT ![jobToRun].completionTime = Some(currentTime)]
    /\ jobsFinished' = jobsFinished + 1
    /\ pc' = "while"
    /\ alt' = AltStep(inputJobs, timeQuantums, alt)
    /\ UNCHANGED <<inputJobs, idx, timeQuantums, maxLevel, currentTime, queues,
                   executionTimeline, jobToRun, queueLevel, jobStats, stderr, pushLog>>

\* (mutant) the demotion branch without the push: the job is dropped
DemoteNoRequeue ==
    /\ pc = "settle"
    /\ jobs[jobToRun].remainingTime # 0
    /\ LET newLevel == DemotedLevel(jobs[jobToRun].currentLevel, maxLevel)
       IN  jobs' = [jobs EXCEPT ![jobToRun].currentLevel = newLevel]
    /\ pc' = "while"
    /\ alt' = AltStep(inputJobs, timeQuantums, alt)
    /\ UNCHANGED <<inputJobs, idx, timeQuantums, maxLevel, currentTime, jobsFinished,
                   queues, executionTimeline, jobToRun, queueLevel, jobStats, stderr,
                   pushLog>>

\* (mutant) the demotion branch pushing onto the queue the job came from
DemoteSameQueue ==
    /\ pc = "settle"
    /\ jobs[jobToRun].remainingTime # 0
    /\ LET newLevel == DemotedLevel(jobs[jobToRun].currentLevel, maxLevel)
       IN  /\ jobs' = [jobs EXCEPT ![jobToRun].currentLevel = newLevel]
           /\ queues' = [queues EXCEPT ![queueLevel + 1] = Append(@, jobToRun)]
           /\ pushLog' = Append(pushLog, Push(jobToRun, queueLevel, "requeue", currentTime))
    /\ pc' = "while"
    /\ alt' = AltStep(inputJobs, timeQuantums, alt)
    /\ UNCHANGED <<inputJobs, idx, timeQuantums, maxLevel, currentTime, jobsFinished,
                   executionTimeline, jobToRun, queueLevel, jobStats, stderr>>

\* (mutant) the demotion branch admitting the jobs that arrived during the
\* slice before it pushes the preempted job
DemoteAfterAdmit ==
    /\ pc = "settle"
    /\ jobs[jobToRun].remainingTime # 0
    /\ LET newLevel == DemotedLevel(jobs[jobToRun].currentLevel, maxLevel)
           arrived == Arrivals(jobs, currentTime)
           admitted == [queues EXCEPT ![1] = @ \o arrived]
       IN  /\ jobs' = [MarkEnqueued(jobs, currentTime)
                           EXCEPT ![jobToRun].currentLevel = newLevel]
           /\ queues' = [admitted EXCEPT ![newLevel + 1] = Append(@, jobToRun)]
           /\ pushLog' = (pushLog \o
                  [k \in 1..Len(arrived) |-> Push(arrived[k], 0, "admit", currentTime)])
                  \o <<Push(jobToRun, newLevel, "requeue", currentTime)>>
    /\ pc' = "while"
    /\ alt' = AltStep(inputJobs, timeQuantums, alt)
    /\ UNCHANGED <<inputJobs, idx, timeQuantums, maxLevel, currentTime, jobsFinished,
                   executionTimeline, jobToRun, queueLevel, jobStats, stderr>>

\* Otherwise the job is demoted (capped at maxLevel) and re-queued at the tail.
Demote ==
    /\ pc = "settle"
    /\ jobs[jobToRun].remainingTime # 0
    /\ LET newLevel == DemotedLevel(jobs[jobToRun].currentLevel, maxLevel)
       IN  /\ jobs' = [jobs EXCEPT ![jobToRun].currentLevel = newLevel]
           /\ queues' = [queues EXCEPT ![newLevel + 1] = Append(@, jobToRun)]
           /\ pushLog' = Append(pushLog, Push(jobToRun, newLevel, "requeue", currentTime))
    /\ pc' = "while"
    /\ alt' = AltStep(inputJobs, timeQuantums, alt)
    /\ UNCHANGED <<inputJobs, idx, timeQuantums, maxLevel, currentTime, jobsFinished,
                   executionTimeline, jobToRun, queueLevel, jobStats, stderr>>

\* Loop test false: the statistics stage, and the return.
Stats ==
    /\ pc = "while"
    /\ ~(jobsFinished < Len(jobs))
    /\ jobStats' = [i \in 1..Len(inputJobs) |-> JobStat(jobs, inputJobs[i])]
    /\ stderr' = SelectSeq([i \in 1..Len(inputJobs) |-> inputJobs[i].id],
                           LAMBDA id : StatFails(jobs, [id |-> id]))
    /\ pc' = "returned"
    /\ alt' = AltStep(inputJobs, timeQuantums, alt)
    /\ UNCHANGED <<inputJobs, idx, timeQuantums, maxLevel, jobs, currentTime,
                   jobsFinished, queues, executionTimeline, jobToRun, queueLevel,
                   pushLog>>

RunStep == Admit \/ Select \/ Idle \/ Run \/ Complete \/ Demote \/ Stats

Next ==
    \/ \E q \in QuantumLists : StartRun(q)
    \/ Admit
    \/ Select
    \/ Idle
    \/ Run
    \/ Complete
    \/ Demote
    \/ Stats

Spec == Init /\ [][Next]_vars

\* runMLFQ is synchronous: once called it runs until it returns or throws.
LiveSpec == Init /\ [][Next]_vars /\ WF_vars(RunStep)

----------------------------------------------------------------------------
(* Properties *)

ValidRun == ValidConfig(timeQuantums)

IsIdle(iv) == iv.id = "IDLE"

AllFinished ==
    \A i \in 1..Len(jobs) :
        jobs[i].remainingTime = 0 /\ jobs[i].completionTime # Null

\* C1: with a non-empty list of positive quanta (jobs with burst > 0 and
\* arrival >= 0) the loop of runMLFQ terminates, and whenever the statistics
\* stage has been reached every job has remainingTime 0 and a completionTime
\* that is set (no job is reported through the error branch).
C1_Terminates ==
    /\ [](pc = "returned" => AllFinished /\ stderr = <<>>)
    /\ ((pc = "while" /\ ValidRun) ~> (pc = "returned"))

\* A valid run of two jobs that has returned after an idle gap and a demotion.
C1_Witness ==
    /\ pc = "returned" /\ ValidRun /\ Len(jobs) = 2 /\ AllFinished
    /\ \E k \in 1..Len(executionTimeline) : IsIdle(executionTimeline[k])
    /\ \E k \in 1..Len(executionTimeline) : executionTimeline[k].level = 1

\* C2: when a run with a valid configuration has returned, jobStats has one
\* entry per registry job, in registry order, with turnaroundTime =
\* completionTime - arrivalTime, waitingTime = turnaroundTime - burstTime and
\* waitingTime >= 0.
C2_Statistics ==
    (pc = "returned" /\ ValidRun) =>
        /\ Len(jobStats) = Len(inputJobs)
        /\ \A i \in 1..Len(inputJobs) :
            /\ jobStats[i].id = inputJobs[i].id
            /\ jobs[i].completionTime # Null
            /\ jobStats[i].turnaroundTime =
                    jobs[i].completionTime[1] - inputJobs[i].arrivalTime
            /\ jobStats[i].waitingTime =
                    jobStats[i].turnaroundTime - inputJobs[i].burstTime
            /\ jobStats[i].waitingTime >= 0
            /\ jobStats[i].turnaroundTime >= inputJobs[i].burstTime

\* A returned valid run in which the second registry job completed first and
\* the first one waited.
C2_Witness ==
    /\ pc = "returned" /\ ValidRun /\ Len(jobStats) = 2
    /\ jobs[2].completionTime # Null /\ jobs[1].completionTime # Null
    /\ jobs[2].completionTime[1] < jobs[1].completionTime[1]
    /\ inputJobs[2].arrivalTime > 0
    /\ jobStats[1].waitingTime > 0

\* The concrete scenario: the registry of the source under quanta [5, 10, 20].
Scenario == inputJobs = Registry /\ timeQuantums = <<5, 10, 20>>

Interval(start, end, id, level) ==
    [start |-> start, end |-> end, id |-> id, level |-> level]

\* C3 as stated: in the scenario, after B completes A runs next from level 1
\* for its remaining 5 units (10-15) and ends with turnaround 15, waiting 5.
C3_Original ==
    Scenario =>
        /\ (Len(executionTimeline) >= 3 =>
                executionTimeline[3] = Interval(10, 15, "A", 1))
        /\ (pc = "returned" =>
                jobStats[1] = [id |-> "A", turnaroundTime |-> 15, waitingTime |-> 5])

\* C3 (amended): in the scenario, when B has completed at t=10 level 1 holds
\* A but level 0 still holds C; C runs next from level 0 for 5 units (10-15,
\* remaining 3, demoted to level 1 behind A); then A runs from level 1 for its
\* remaining 5 units (15-20) and ends with turnaround 20 and waiting 10.
C3_Amended ==
    Scenario =>
        /\ (Len(executionTimeline) = 2 /\ pc = "while" =>
                queues = << <<3>>, <<1>>, <<>> >>)
        /\ (Len(executionTimeline) >= 3 =>
                executionTimeline[3] = Interval(10, 15, "C", 0))
        /\ (Len(executionTimeline) = 3 /\ pc = "while" =>
                /\ jobs[3].remainingTime = 3
                /\ queues = << <<>>, <<1, 3>>, <<>> >>)
        /\ (Len(executionTimeline) >= 4 =>
                executionTimeline[4] = Interval(15, 20, "A", 1))
        /\ (Len(executionTimeline) = 4 /\ pc = "while" =>
                jobs[1].remainingTime = 0 /\ jobs[1].completionTime = Some(20))
        /\ (pc = "returned" =>
                jobStats[1] = [id |-> "A", turnaroundTime |-> 20, waitingTime |-> 10])

\* The scenario has returned after A's second slice.
C3_Witness ==
    /\ Scenario /\ pc = "returned"
    /\ Len(executionTimeline) >= 4
    /\ executionTimeline[4].id = "A"
    /\ jobs[1].completionTime # Null

\* C4: in the scenario A is dispatched first, at t=0 from level 0 for 5
\* units (remaining 5, demoted to level 1); at t=5 B is dispatched from level
\* 0 and runs 5 units, completing at t=10 with turnaround 9 and waiting 4.
C4_Scenario ==
    Scenario =>
        /\ (Len(executionTimeline) >= 1 =>
                executionTimeline[1] = Interval(0, 5, "A", 0))
        /\ (Len(executionTimeline) = 1 /\ pc = "while" =>
                /\ jobs[1].remainingTime = 5
                /\ jobs[1].currentLevel = 1
                /\ queues[2] = <<1>>)
        /\ (Len(executionTimeline) = 1 /\ pc = "branch" =>
                jobToRun = 2 /\ queueLevel = 0 /\ currentTime = 5)
        /\ (Len(executionTimeline) >= 2 =>
                executionTimeline[2] = Interval(5, 10, "B", 0))
        /\ (Len(executionTimeline) = 2 /\ pc = "while" =>
                jobs[2].remainingTime = 0 /\ jobs[2].completionTime = Some(10))
        /\ (pc = "returned" =>
                jobStats[2] = [id |-> "B", turnaroundTime |-> 9, waitingTime |-> 4])

\* The scenario has returned with B's statistics.
C4_Witness ==
    /\ Scenario /\ pc = "returned"
    /\ Len(jobStats) = 3 /\ jobStats[2].id = "B"
    /\ Len(executionTimeline) >= 2 /\ executionTimeline[2].id = "B"

RECURSIVE SumDurations(_)
SumDurations(tl) ==
    IF tl = <<>> THEN 0
    ELSE (Head(tl).end - Head(tl).start) + SumDurations(Tail(tl))

\* C5: at every point of a run with a valid configuration the timeline is
\* contiguous and non-overlapping: the first interval starts at 0, each
\* interval starts where the previous one ends, every interval has positive
\* duration, and the end of the last interval, which is the sum of all
\* durations, equals the current clock.
C5_Contiguous ==
    ValidRun =>
        LET tl == executionTimeline
            n == Len(executionTimeline)
        IN  /\ (n = 0 => currentTime = 0)
            /\ (n > 0 => tl[1].start = 0 /\ tl[n].end = currentTime)
            /\ \A k \in 1..n : tl[k].end > tl[k].start
            /\ \A k \in 2..n : tl[k].start = tl[k - 1].end
            /\ SumDurations(tl) = currentTime

\* A valid run that has returned with idle and job intervals, the last job
\* interval shorter than its quantum.
C5_Witness ==
    /\ ValidRun /\ pc = "returned" /\ Len(executionTimeline) >= 4
    /\ \E k \in 2..Len(executionTimeline) : IsIdle(executionTimeline[k])
    /\ \E k \in 2..Len(executionTimeline) :
            /\ ~IsIdle(executionTimeline[k])
            /\ executionTimeline[k].end - executionTimeline[k].start
                    < timeQuantums[executionTimeline[k].level + 1]

\* The statistics stage alone: Stats applied to a registry and tracked jobs
\* in which any job may be complete or may have no completionTime.
TrackedStates(reg) ==
    { [i \in 1..Len(reg) |->
          [id |-> reg[i].id, arrivalTime |-> reg[i].arrivalTime,
           burstTime |-> reg[i].burstTime,
           remainingTime |-> IF f[i] = 0 THEN reg[i].burstTime ELSE 0,
           currentLevel |-> 0,
           completionTime |-> IF f[i] = 0 THEN Null
                              ELSE Some(reg[i].arrivalTime + reg[i].burstTime + f[i] - 1),
           enqueued |-> TRUE]] :
        f \in [1..Len(reg) -> 0..MaxBurst] }

InitStats ==
    /\ inputJobs \in JobSets
    /\ jobs \in TrackedStates(inputJobs)
    /\ idx = 1
    /\ timeQuantums = <<1>>
    /\ maxLevel = 0
    /\ currentTime = 0
    /\ jobsFinished = Len(jobs)
    /\ queues = << <<>> >>
    /\ executionTimeline = <<>>
    /\ jobToRun = Undefined
    /\ queueLevel = 0
    /\ jobStats = <<>>
    /\ stderr = <<>>
    /\ pc = "while"
    /\ pushLog = <<>>
    /\ alt = [AltStart(inputJobs, timeQuantums) EXCEPT !.jobs = jobs,
                                                     !.jobsFinished = Len(jobs)]

SpecStats == InitStats /\ [][Stats]_vars

Called == pc # "caller"

\* C6 as stated: a call of runMLFQ with an empty quantum list fails with a
\* configuration error before any simulation state (tracked jobs, queues,
\* clock, timeline) is created.
C6_Original ==
    (Called /\ Len(timeQuantums) = 0) =>
        /\ pc = "ConfigError"
        /\ jobs = <<>>
        /\ executionTimeline = <<>>

\* C7 as stated: a call of runMLFQ with a quantum list holding a
\* non-positive value is rejected with a configuration error before the
\* loop starts, and no dispatch runs with runTime <= 0.
C7_Original ==
    (Called /\ \E l \in 1..Len(timeQuantums) : timeQuantums[l] <= 0) =>
        /\ pc = "ConfigError"
        /\ \A k \in 1..Len(executionTimeline) :
                executionTimeline[k].end > executionTimeline[k].start

\* C8 as stated: the statistics stage given a tracked job whose
\* completionTime is unset does not return: it fails with an
\* internal-consistency error, and no entry of jobStats is the sentinel
\* (turnaroundTime = -1, waitingTime = -1).
C8_Original ==
    (pc = "returned") =>
        /\ \A i \in 1..Len(jobs) : jobs[i].completionTime # Null
        /\ \A i \in 1..Len(jobStats) :
                ~(jobStats[i].turnaroundTime = -1 /\ jobStats[i].waitingTime = -1)

\* C9: a run leaves the registry unchanged, and whenever a call of runMLFQ
\* returns, after any earlier calls, the timeline it printed and the
\* statistics it returns are exactly those of a call with the same quantum
\* list made on its own.
C9_Independent ==
    [][ /\ inputJobs' = inputJobs
        /\ (pc' = "returned" =>
                Output(executionTimeline', jobStats') = runMLFQ(inputJobs, timeQuantums'))
      ]_vars

\* A second call has returned, with a timeline and statistics.
C9_Witness ==
    /\ pc = "returned" /\ idx = 2
    /\ Len(executionTimeline) >= 3 /\ Len(jobStats) >= 2
    /\ jobStats[1].waitingTime > 0

NextArrival(t) ==
    LET later == {inputJobs[i].arrivalTime : i \in 1..Len(inputJobs)} \ (0 - 1)..t
    IN  CHOOSE a \in later : \A b \in later : a <= b

JobNamed(id) == jobs[Find(jobs, id)]

\* C10: in a run with a valid configuration, an iteration at clock t records
\* an IDLE interval exactly when every job with arrivalTime <= t is complete
\* and some job has not arrived; an IDLE interval is [t, t+1); the IDLE
\* intervals run on until the next arrival a, and the job dispatched after
\* an IDLE interval is dispatched at its arrival time.
C10_Idle ==
    ValidRun =>
        LET tl == executionTimeline
            n == Len(executionTimeline)
        IN  /\ (pc = "branch" =>
                  ((jobToRun = Undefined) <=>
                     /\ \A i \in 1..Len(jobs) :
                            jobs[i].arrivalTime <= currentTime => jobs[i].remainingTime = 0
                     /\ \E i \in 1..Len(jobs) : jobs[i].arrivalTime > currentTime))
            /\ \A k \in 1..n : IsIdle(tl[k]) =>
                  /\ tl[k].end = tl[k].start + 1
                  /\ \E i \in 1..Len(jobs) : jobs[i].arrivalTime > tl[k].start
                  /\ \A i \in 1..Len(jobs) :
                        jobs[i].arrivalTime <= tl[k].start =>
                            /\ jobs[i].completionTime # Null
                            /\ jobs[i].completionTime[1] <= tl[k].start
                  /\ \A m \in k..n :
                        tl[m].start < NextArrival(tl[k].start) => IsIdle(tl[m])
            /\ \A k \in 2..n : (IsIdle(tl[k - 1]) /\ ~IsIdle(tl[k])) =>
                  tl[k].start = JobNamed(tl[k].id).arrivalTime

\* A job completed at c, two IDLE intervals followed, and the job arriving
\* at c + 2 was dispatched then.
C10_Witness ==
    /\ ValidRun /\ pc = "returned"
    /\ \E k \in 2..(Len(executionTimeline) - 2) :
            /\ ~IsIdle(executionTimeline[k - 1])
            /\ IsIdle(executionTimeline[k])
            /\ IsIdle(executionTimeline[k + 1])
            /\ ~IsIdle(executionTimeline[k + 2])
            /\ JobNamed(executionTimeline[k - 1].id).completionTime
                    = Some(executionTimeline[k].start)
            /\ JobNamed(executionTimeline[k + 2].id).arrivalTime
                    = executionTimeline[k].start + 2

----------------------------------------------------------------------------
(* Queues, levels and dispatch order *)

SingleLevel == ValidRun /\ Len(timeQuantums) = 1

Count(seq, x) == Cardinality({k \in 1..Len(seq) : seq[k] = x})

Last(seq) == seq[Len(seq)]

\* job i has been shifted off its queue and not yet completed or re-queued
InFlight(i) == pc \in {"branch", "settle"} /\ jobToRun = i

\* the intervals of the timeline labelled with the id
IntervalsOf(id) ==
    {k \in 1..Len(executionTimeline) : executionTimeline[k].id = id}

\* C11: with a single-level configuration [N], N > 0, every job's level stays
\* 0 and every dispatch is labelled level 0; an admitted job with time left
\* is either the job being dispatched or in queue 0 exactly once; a job that
\* did not finish its slice is the tail of queue 0 when the loop is next
\* tested; and when the run returns every job is complete, having been
\* dispatched ceil(burstTime / N) times.
C11_SingleLevel ==
    SingleLevel =>
        LET tl == executionTimeline
            n == Len(executionTimeline)
            N == timeQuantums[1]
        IN  /\ \A i \in 1..Len(jobs) : jobs[i].currentLevel = 0
            /\ \A k \in 1..n : ~IsIdle(tl[k]) => tl[k].level = 0
            /\ \A i \in 1..Len(jobs) :
                  (jobs[i].enqueued /\ jobs[i].remainingTime > 0) =>
                      IF InFlight(i) THEN Count(queues[1], i) = 0
                      ELSE Count(queues[1], i) = 1
            /\ (pc = "while" /\ n > 0 /\ ~IsIdle(tl[n])
                    /\ JobNamed(tl[n].id).remainingTime > 0) =>
                  /\ queues[1] # <<>>
                  /\ jobs[Last(queues[1])].id = tl[n].id
            /\ pc = "returned" =>
                  /\ AllFinished
                  /\ \A i \in 1..Len(jobs) :
                        Cardinality(IntervalsOf(jobs[i].id))
                            = (jobs[i].burstTime + N - 1) \div N

\* A single-level run has returned in which one job was dispatched three
\* times with another job dispatched in between.
C11_Witness ==
    /\ SingleLevel /\ pc = "returned"
    /\ \E i \in 1..Len(jobs) :
          /\ Cardinality(IntervalsOf(jobs[i].id)) = 3
          /\ \E k \in IntervalsOf(jobs[i].id) :
                /\ k + 1 <= Len(executionTimeline)
                /\ ~IsIdle(executionTimeline[k + 1])
                /\ executionTimeline[k + 1].id # jobs[i].id

----------------------------------------------------------------------------
(* The findings for the five tested configurations *)

RECURSIVE TotalTurnaround(_)
TotalTurnaround(stats) ==
    IF stats = <<>> THEN 0
    ELSE Head(stats).turnaroundTime + TotalTurnaround(Tail(stats))

RECURSIVE TotalWaiting(_)
TotalWaiting(stats) ==
    IF stats = <<>> THEN 0
    ELSE Head(stats).waitingTime + TotalWaiting(Tail(stats))

BestQuanta == <<10, 20, 40>>

\* C12: for the jobs A(0,10), B(1,5), C(2,8) of the source, a returned call
\* with quanta [10,20,40] has total turnaround 45 (average 15) and total
\* waiting 22 (average 7.33) with waiting time 0 for A, and a returned call
\* with any of the other four tested lists has total turnaround in 50..59
\* and total waiting in 27..36, both strictly above the totals that
\* runMLFQ([10,20,40]) returns.
C12_Findings ==
    (pc = "returned" /\ inputJobs = Registry
            /\ timeQuantums \in Range(quantumTests)) =>
        LET tt == TotalTurnaround(jobStats)
            tw == TotalWaiting(jobStats)
            best == runMLFQ(Registry, BestQuanta).stats
        IN  IF timeQuantums = BestQuanta
            THEN /\ tt = 45 /\ tt = 15 * Len(jobStats)
                 /\ tw = 22 /\ (100 * tw) \div Len(jobStats) = 733
                 /\ jobStats[1] = [id |-> "A", turnaroundTime |-> 10, waitingTime |-> 0]
            ELSE /\ tt \in 50..59
                 /\ tw \in 27..36
                 /\ TotalTurnaround(best) < tt
                 /\ TotalWaiting(best) < tw

\* The driver has called runMLFQ([10,20,40]) after another tested list, and
\* the call returned waiting time 0 for A.
C12_Witness ==
    /\ pc = "returned" /\ inputJobs = Registry /\ idx = 2
    /\ timeQuantums = BestQuanta
    /\ jobStats[1].waitingTime = 0
    /\ Len(executionTimeline) = 3

----------------------------------------------------------------------------
(* Queue membership *)

\* the number of entries for job i over all level queues
Occurrences(i) ==
    Cardinality({p \in (1..Len(queues)) \X (1..Len(jobs)) :
                    p[2] <= Len(queues[p[1]]) /\ queues[p[1]][p[2]] = i})

Completed(i) == jobs[i].completionTime # Null

\* C13 as stated, read at the loop test between two iterations of a valid
\* run: every job with arrivalTime <= clock that is not completed is in
\* exactly one queue exactly once, and every other job is in no queue.
C13_Original ==
    (ValidRun /\ pc = "while" /\ executionTimeline # <<>>) =>
        \A i \in 1..Len(jobs) :
            IF jobs[i].arrivalTime <= currentTime /\ ~Completed(i)
            THEN Occurrences(i) = 1
            ELSE Occurrences(i) = 0

\* C13 amended: membership follows admission, not arrival.  In every state of
\* a call, a job that has been admitted (enqueued is set) and is not
\* completed is in exactly one queue exactly once, or in none while it is
\* the job being dispatched; a completed job and a job not yet admitted are
\* in no queue; a job is admitted only once its arrivalTime <= clock; and
\* between the admission step and the advance of the clock every job with
\* arrivalTime <= clock has been admitted.
C13_Amended ==
    Len(timeQuantums) > 0 =>
        \A i \in 1..Len(jobs) :
            /\ (jobs[i].enqueued /\ ~Completed(i)) =>
                  Occurrences(i) = (IF InFlight(i) THEN 0 ELSE 1)
            /\ (~jobs[i].enqueued \/ Completed(i)) => Occurrences(i) = 0
            /\ Completed(i) => jobs[i].enqueued
            /\ (ValidRun /\ jobs[i].enqueued) => jobs[i].arrivalTime <= currentTime
            /\ (pc \in {"select", "branch"} /\ jobs[i].arrivalTime <= currentTime) =>
                  jobs[i].enqueued

\* At a loop test of a valid run a job demoted after its slice waits in a
\* queue, and the clock has passed the arrival of a job that is admitted
\* only in the iteration that follows.
C13_Witness ==
    /\ ValidRun /\ pc = "while" /\ executionTimeline # <<>>
    /\ \E i, j \in 1..Len(jobs) :
          /\ jobs[i].enqueued /\ ~Completed(i) /\ Occurrences(i) = 1
          /\ ~jobs[j].enqueued /\ jobs[j].arrivalTime <= currentTime
          /\ Occurrences(j) = 0

----------------------------------------------------------------------------
(* Dispatch order *)

\* the position in pushLog of the latest push of job i, 0 when never pushed
LastPush(i) ==
    IF \E k \in 1..Len(pushLog) : pushLog[k].job = i
    THEN CHOOSE k \in 1..Len(pushLog) :
            /\ pushLog[k].job = i
            /\ \A m \in (k + 1)..Len(pushLog) : pushLog[m].job # i
    ELSE 0

\* C14: whenever a job has been taken for dispatch from queue queueLevel,
\* every queue of a lower index is empty, the job's latest push was onto
\* that queue, and every job left in that queue was pushed onto it later
\* than the dispatched job; when no job has been taken, every queue is empty.
C14_StrictPriorityFifo ==
    pc = "branch" =>
        IF jobToRun # Undefined
        THEN /\ queueLevel \in 0..maxLevel
             /\ \A l \in 0..(queueLevel - 1) : queues[l + 1] = <<>>
             /\ LastPush(jobToRun) > 0
             /\ pushLog[LastPush(jobToRun)].level = queueLevel
             /\ \A p \in 1..Len(queues[queueLevel + 1]) :
                   LET other == queues[queueLevel + 1][p]
                   IN  /\ pushLog[LastPush(other)].level = queueLevel
                       /\ LastPush(other) > LastPush(jobToRun)
        ELSE \A l \in 0..maxLevel : queues[l + 1] = <<>>

\* A job is taken from queue 1 while queue 0 is empty and a job demoted
\* after it is still waiting in queue 1.
C14_Witness ==
    /\ pc = "branch" /\ jobToRun # Undefined
    /\ queueLevel = 1
    /\ queues[1] = <<>>
    /\ queues[2] # <<>>
    /\ pushLog[LastPush(jobToRun)].kind = "requeue"

----------------------------------------------------------------------------
(* Admission *)

\* the pushes of job i made by the admission step
AdmitsOf(i) ==
    {k \in 1..Len(pushLog) : pushLog[k].job = i /\ pushLog[k].kind = "admit"}

AdmitOf(i) == pushLog[CHOOSE k \in AdmitsOf(i) : TRUE]

\* the position of x in a sequence that holds it
Pos(seq, x) == CHOOSE p \in 1..Len(seq) : seq[p] = x

\* C15: in a valid run the admission step pushes each job exactly once, onto
\* queue 0, at a clock >= its arrivalTime; no iteration that began at a clock
\* >= its arrivalTime began before that push, and an unadmitted job has seen
\* no such iteration; no interval of a job starts before its arrivalTime;
\* and jobs admitted at the same clock are pushed, and stand in queue 0 after
\* the admission step, in the order of the job registry.
C15_Admission ==
    ValidRun =>
        LET tl == executionTimeline
            n == Len(executionTimeline)
        IN  /\ \A i \in 1..Len(jobs) :
                  IF jobs[i].enqueued
                  THEN /\ Cardinality(AdmitsOf(i)) = 1
                       /\ AdmitOf(i).level = 0
                       /\ AdmitOf(i).clock >= jobs[i].arrivalTime
                       /\ jobs[i].arrivalTime <= 0 => AdmitOf(i).clock = 0
                       /\ \A k \in 1..n :
                             tl[k].start >= jobs[i].arrivalTime =>
                                 tl[k].start >= AdmitOf(i).clock
                  ELSE /\ AdmitsOf(i) = {}
                       /\ \A k \in 1..n : tl[k].start < jobs[i].arrivalTime
                       /\ pc \in {"select", "branch"} =>
                             currentTime < jobs[i].arrivalTime
            /\ \A k \in 1..n :
                  ~IsIdle(tl[k]) => tl[k].start >= JobNamed(tl[k].id).arrivalTime
            /\ \A i, j \in 1..Len(jobs) :
                  (i < j /\ jobs[i].enqueued /\ jobs[j].enqueued
                         /\ AdmitOf(i).clock = AdmitOf(j).clock) =>
                      /\ \A a \in AdmitsOf(i), b \in AdmitsOf(j) : a < b
                      /\ pc = "select" /\ AdmitOf(i).clock = currentTime =>
                            Pos(queues[1], i) < Pos(queues[1], j)

\* The admission step has just pushed two jobs with different arrival
\* times, both earlier than the clock, behind each other onto queue 0.
C15_Witness ==
    /\ ValidRun /\ pc = "select" /\ currentTime > 0
    /\ \E i, j \in 1..Len(jobs) :
          /\ i < j
          /\ jobs[i].enqueued /\ jobs[j].enqueued
          /\ AdmitOf(i).clock = currentTime /\ AdmitOf(j).clock = currentTime
          /\ jobs[i].arrivalTime < jobs[j].arrivalTime
          /\ jobs[j].arrivalTime < currentTime
          /\ Pos(queues[1], j) = Pos(queues[1], i) + 1

----------------------------------------------------------------------------
(* Levels *)

\* the step settles a dispatch of job i that did not finish it
Unfinished(i) ==
    pc = "settle" /\ jobToRun = i /\ jobs[i].remainingTime # 0

LevelStep ==
    IF pc \in {"caller", "returned"}
    THEN \A i \in 1..Len(jobs') : jobs'[i].currentLevel = 0
    ELSE Len(timeQuantums) > 0 =>
            \A i \in 1..Len(jobs) :
                /\ jobs'[i].currentLevel \in 0..maxLevel
                /\ jobs'[i].currentLevel >= jobs[i].currentLevel
                /\ jobs'[i].currentLevel =
                      IF Unfinished(i) /\ jobs[i].currentLevel < maxLevel
                      THEN jobs[i].currentLevel + 1
                      ELSE jobs[i].currentLevel

\* C16: every job's currentLevel is 0 when a call starts; in every later
\* step of the call it stays within 0..maxLevel and does not decrease; it
\* grows by exactly 1 in the step that settles a dispatch which did not
\* finish the job while currentLevel < maxLevel, and is unchanged by every
\* other step, among them such a dispatch at currentLevel = maxLevel and a
\* dispatch that finishes the job.
C16_Levels == [][LevelStep]_vars

\* A job was demoted to the lowest level of a multi-level configuration and
\* demoted again there, and a job completed from level 0.
C16_Witness ==
    /\ ValidRun /\ maxLevel >= 1 /\ pc = "while"
    /\ \E i \in 1..Len(jobs) :
          /\ jobs[i].currentLevel = maxLevel
          /\ Cardinality({k \in 1..Len(pushLog) :
                 pushLog[k] = Push(i, maxLevel, "requeue", pushLog[k].clock)}) >= 2
    /\ \E j \in 1..Len(jobs) : Completed(j) /\ jobs[j].currentLevel = 0

\* every job waiting in queue k has currentLevel k
QueuesMatchLevels ==
    \A l \in 0..(Len(queues) - 1) :
        \A p \in 1..Len(queues[l + 1]) : jobs[queues[l + 1][p]].currentLevel = l

\* the step runs the job taken for dispatch
Dispatching == pc = "branch" /\ pc' = "settle"

LevelConsistencyStep ==
    /\ QueuesMatchLevels'
    /\ (pc' = "branch" /\ jobToRun' # Undefined) =>
          jobs'[jobToRun'].currentLevel = queueLevel'
    /\ Dispatching =>
          LET job == jobs[jobToRun]
              iv == Last(executionTimeline')
          IN  /\ Len(executionTimeline') = Len(executionTimeline) + 1
              /\ iv.id = job.id
              /\ iv.level = job.currentLevel
              /\ iv.start = currentTime
              /\ iv.end - iv.start
                    = Min(timeQuantums[job.currentLevel + 1], job.remainingTime)
              /\ jobs'[jobToRun].remainingTime
                    = job.remainingTime - (iv.end - iv.start)

\* C17: after every step a job waiting in queue k has currentLevel k and a
\* job taken for dispatch from queue queueLevel has currentLevel queueLevel;
\* the step that runs it appends one interval labelled with the job's own
\* currentLevel whose duration is the minimum of the quantum of that level
\* and the job's remainingTime before the step.
C17_LevelConsistency == [][LevelConsistencyStep]_vars

\* A job taken from queue 1 has just run for its remaining time, which is
\* less than the quantum of level 1, while another job waits in queue 1.
C17_Witness ==
    /\ pc = "settle" /\ ValidRun
    /\ queueLevel = 1
    /\ jobs[jobToRun].currentLevel = 1
    /\ jobs[jobToRun].remainingTime = 0
    /\ Last(executionTimeline).level = 1
    /\ Last(executionTimeline).end - Last(executionTimeline).start < timeQuantums[2]
    /\ queues[2] # <<>>

----------------------------------------------------------------------------
(* CPU-time accounting *)

\* the summed durations of the intervals labelled with the id
CpuTime(id) ==
    SumDurations(SelectSeq(executionTimeline, LAMBDA iv : iv.id = id))

RECURSIVE SumBursts(_)
SumBursts(js) ==
    IF js = <<>> THEN 0 ELSE Head(js).burstTime + SumBursts(Tail(js))

IdleCount == Cardinality({k \in 1..Len(executionTimeline) :
                              IsIdle(executionTimeline[k])})

\* C18: in every state of a valid run each job's remainingTime is within
\* 0..burstTime and equals burstTime minus the summed durations of the
\* intervals labelled with the job; when the call has returned each job's
\* intervals sum to its burstTime and the clock equals the sum of all burst
\* times plus the number of IDLE intervals.
C18_Accounting ==
    (ValidRun /\ Called) =>
        /\ \A i \in 1..Len(jobs) :
              /\ jobs[i].remainingTime \in 0..jobs[i].burstTime
              /\ jobs[i].remainingTime = jobs[i].burstTime - CpuTime(jobs[i].id)
        /\ pc = "returned" =>
              /\ \A i \in 1..Len(jobs) : CpuTime(jobs[i].id) = jobs[i].burstTime
              /\ currentTime = SumBursts(<<>> \o jobs) + IdleCount

\* A call has returned after IDLE intervals and after a job ran in several
\* slices, the last one shorter than the first.
C18_Witness ==
    /\ ValidRun /\ pc = "returned"
    /\ IdleCount >= 1
    /\ Len(jobs) = 2
    /\ \E k, m \in 1..Len(executionTimeline) :
          /\ k < m
          /\ ~IsIdle(executionTimeline[k])
          /\ executionTimeline[k].id = executionTimeline[m].id
          /\ executionTimeline[m].end - executionTimeline[m].start
                < executionTimeline[k].end - executionTimeline[k].start

----------------------------------------------------------------------------
(* Re-queue before admission *)

\* the pushes that re-queued job j at clock e
RequeuesAt(j, e) ==
    {r \in 1..Len(pushLog) :
        pushLog[r].job = j /\ pushLog[r].kind = "requeue" /\ pushLog[r].clock = e}

\* job i arrived within interval k of the timeline
ArrivedWithin(i, k) ==
    /\ executionTimeline[k].start < jobs[i].arrivalTime
    /\ jobs[i].arrivalTime <= executionTimeline[k].end

\* C19: in a valid run, when job j has been re-queued after a slice that
\* did not finish it, the push of every job that arrived within that slice
\* (start < arrivalTime <= end) comes later than j's; in a single-level
\* configuration j then stands ahead of each such job while both wait in
\* queue 0 after that slice, and every interval of such a job is preceded by
\* a later interval of j.
C19_RequeueFirst ==
    ValidRun =>
        LET tl == executionTimeline
        IN  \A k \in 1..Len(tl) : \A j, i \in 1..Len(jobs) :
                (/\ tl[k].id = jobs[j].id
                 /\ RequeuesAt(j, tl[k].end) # {}
                 /\ ArrivedWithin(i, k)) =>
                    /\ \A r \in RequeuesAt(j, tl[k].end), a \in AdmitsOf(i) : r < a
                    /\ SingleLevel =>
                          /\ (/\ Count(queues[1], i) = 1 /\ Count(queues[1], j) = 1
                              /\ LastPush(j) \in RequeuesAt(j, tl[k].end)) =>
                                Pos(queues[1], j) < Pos(queues[1], i)
                          /\ \A m \in 1..Len(tl) :
                                tl[m].id = jobs[i].id =>
                                    \E d \in (k + 1)..(m - 1) : tl[d].id = jobs[j].id

\* In a single-level run a job was preempted, a job that arrived during the
\* slice was admitted behind it, and the preempted job ran again before the
\* newcomer ran.
C19_Witness ==
    /\ SingleLevel /\ pc = "returned"
    /\ \E j, i \in 1..Len(jobs) :
          /\ Len(executionTimeline) >= 3
          /\ executionTimeline[1].id = jobs[j].id
          /\ ArrivedWithin(i, 1)
          /\ executionTimeline[2].id = jobs[j].id
          /\ executionTimeline[3].id = jobs[i].id
          /\ \E r \in RequeuesAt(j, executionTimeline[1].end) :
                \E a \in AdmitsOf(i) : r < a

----------------------------------------------------------------------------
(* The two implementations side by side *)

\* the call of src/MLFQ.ts is at a loop test, has returned, or has thrown
BetweenIterations == pc \in {"while", "returned", "TypeError"}

\* C20: part_000's runMLFQ is advanced by one iteration each time the
\* runMLFQ of MLFQ.ts reaches its loop test again, and by its statistics
\* stage when MLFQ.ts returns.  At each of these points both are at the same
\* position with the same clock, queues, tracked jobs and count of finished
\* jobs, and have produced the same timeline strings and the same
\* statistics.
C20_Equivalent ==
    BetweenIterations =>
        /\ alt.pc = pc
        /\ alt.currentTime = currentTime
        /\ alt.queues = queues
        /\ alt.jobs = jobs
        /\ alt.jobsFinished = jobsFinished
        /\ Output(alt.executionTimeline, alt.jobStats)
                = Output(executionTimeline, jobStats)

\* Both implementations have returned from a valid multi-level run in which
\* a job arriving late was served from level 0 ahead of a job waiting on
\* level 1, with the same statistics for the two jobs.
C20_Witness ==
    /\ pc = "returned" /\ alt.pc = "returned"
    /\ ValidRun
    /\ Len(alt.jobStats) = 2 /\ alt.jobStats = jobStats
    /\ \E k \in 2..Len(alt.executionTimeline) :
          /\ alt.executionTimeline[k - 1].level = 1
          /\ alt.executionTimeline[k].level = 0

====
